---- MODULE Spec2Model ----
(***************************************************************************)
(* A model of football-stats.py: the APIFootballClient class.              *)
(*                                                                         *)
(* One run of get_team_statistics is modelled.  The run blocks three times *)
(* on an HTTP GET; each action below is the stretch of the run around one  *)
(* of these requests, with the outcome of the GET drawn from a bounded set *)
(* of outcomes (failures, non-JSON bodies, JSON bodies of every shape).    *)
(*                                                                         *)
(* Python values are modelled as follows:                                  *)
(*   dict   a function whose domain is the set of keys that are present    *)
(*   list   a sequence                                                     *)
(*   str    a sequence of characters (where the code looks inside it)      *)
(*   the result of a call: [st |-> "return", val |-> v], [st |-> "none"]   *)
(*   (the call returned None) or [st |-> "raise", exc |-> e] (an exception *)
(*   left the call).                                                       *)
(***************************************************************************)
EXTENDS Integers, Sequences, FiniteSets, TLC

(***************************************************************************)
(* Bounds of the model.                                                    *)
(***************************************************************************)
MaxLeagues == 2     \* longest league list in a leagues payload
MaxSeasons == 1     \* longest season list of a league record
MaxTeams == 2       \* longest candidate list in a teams payload

(***************************************************************************)
(* datetime.now().year at the time of the run.                             *)
(***************************************************************************)
Season == 2026

LeagueIds == {39, 140}
TeamIds == {33, 50}

(***************************************************************************)
(* Strings the code looks inside: team names.                              *)
(***************************************************************************)
CandidateNames == {<<"M", "U">>, <<"m", "u">>, <<"M", "C">>, <<"M">>}

RequestedNames == {<<"m", "U">>, <<"M", "C">>}

\* str.lower() on one character
lower_char(c) ==
    CASE c = "M" -> "m"
      [] c = "U" -> "u"
      [] c = "C" -> "c"
      [] OTHER -> c

\* str.lower()
lower(s) == [i \in 1..Len(s) |-> lower_char(s[i])]

SeqsUpTo(S, n) == UNION {[1..k -> S] : k \in 0..n}

(***************************************************************************)
(* Results of calls.                                                       *)
(***************************************************************************)
Ret(v) == [st |-> "return", val |-> v]
RetNone == [st |-> "none"]
Raise(e) == [st |-> "raise", exc |-> e]
Pending == [st |-> "pending"]

\* Python truthiness of the result of _make_request (None, a list or a dict)
Truthy(r) == r.st = "return" /\ DOMAIN r.val # {}

(***************************************************************************)
(* Payloads of the three endpoints.                                        *)
(***************************************************************************)
SeasonEntries ==
    { [year |-> Season, current |-> TRUE],
      [year |-> Season, current |-> FALSE],
      [year |-> Season - 1, current |-> TRUE] }

SeasonLists == SeqsUpTo(SeasonEntries, MaxSeasons)

LeagueRecords ==
    {[name |-> "L", id |-> i, seasons |-> s] : i \in LeagueIds, s \in SeasonLists}
    \cup {[name |-> "L", id |-> i] : i \in LeagueIds}
    \cup {[name |-> "L", seasons |-> s] : s \in SeasonLists}
    \cup {[name |-> "L"]}

\* the league lists of length k
LeagueLists(k) == [1..k -> LeagueRecords]

TeamRecords == {[team |-> [id |-> i, name |-> n]] : i \in TeamIds, n \in CandidateNames}

\* the candidate lists of length k
TeamLists(k) == [1..k -> TeamRecords]

(***************************************************************************)
(* Outcomes of requests.get + raise_for_status + response.json().          *)
(* A JSON object is a function with the key "type" added to tell it from   *)
(* the other JSON values; its own keys are DOMAIN d \ {"type"}.            *)
(***************************************************************************)
ErrorsValues == {<<>>, <<"e">>}

\* the JSON objects with the payload p
ObjectsOver(p) ==
    {[type |-> "object", response |-> p]}
    \cup {[type |-> "object", response |-> p, errors |-> e] : e \in ErrorsValues}

\* the JSON values without a payload: objects with no "response" key, arrays
\* and null
BareBodies ==
    {[type |-> "object"], [type |-> "object", results |-> 0]}
    \cup {[type |-> "object", errors |-> e] : e \in ErrorsValues}
    \cup {[type |-> "array", len |-> 0], [type |-> "array", len |-> 1], [type |-> "null"]}

Ok(b) == [kind |-> "ok", data |-> b]

FailedOutcomes ==
    {[kind |-> "ConnectionError"], [kind |-> "Timeout"],
     [kind |-> "RequestException"], [kind |-> "JSONDecodeError"]}
    \cup {[kind |-> "HTTPError", status |-> s] : s \in {403, 429, 500}}

BareOutcomes == FailedOutcomes \cup {Ok(b) : b \in BareBodies}

\* Step holds of some outcome of a GET whose payloads are Payloads(k), k in Sizes
some_outcome(Sizes, Payloads(_), Step(_)) ==
    \/ \E o \in BareOutcomes : Step(o)
    \/ \E k \in Sizes : \E p \in Payloads(k) : \E b \in ObjectsOver(p) : Step(Ok(b))

\* the keys of a JSON object
Keys(d) == DOMAIN d \ {"type"}

(***************************************************************************)
(* _make_request: the outcome of the GET to the result of the call and the *)
(* lines it prints.                                                        *)
(***************************************************************************)
(* _make_request: the outcome of the GET to the result of the call and the *)
(* lines it prints.                                                        *)
(***************************************************************************)
\* envelope, but an empty or missing payload gives the None of a failed request
envelope_none_on_empty(data) ==
    IF Keys(data) # {} /\ "response" \in Keys(data) /\ DOMAIN data.response # {}
    THEN [res |-> Ret(data.response), out |-> <<>>]
    ELSE [res |-> RetNone,
          out |-> IF "errors" \in Keys(data) /\ DOMAIN data.errors # {}
                  THEN <<"api_error">> ELSE <<>>]

\* lines 50-56 on a JSON object: "if data and data.get('response')"
envelope(data) ==
    IF Keys(data) # {} /\ "response" \in Keys(data) /\ DOMAIN data.response # {}
    THEN [res |-> Ret(data.response), out |-> <<>>]
    ELSE [res |-> Ret(<<>>),
          out |-> IF "errors" \in Keys(data) /\ DOMAIN data.errors # {}
                  THEN <<"api_error">> ELSE <<>>]

make_request(o) ==
    CASE o.kind = "HTTPError" ->
           [res |-> RetNone,
            out |-> <<"http_error">> \o
                    (IF o.status = 403 THEN <<"error_403">>
                     ELSE IF o.status = 429 THEN <<"error_429">>
                     ELSE <<>>)]
      [] o.kind = "ConnectionError" -> [res |-> RetNone, out |-> <<"connection_error">>]
      [] o.kind = "Timeout" -> [res |-> RetNone, out |-> <<"timeout_error">>]
      [] o.kind = "RequestException" -> [res |-> RetNone, out |-> <<"request_error">>]
      \* response.json() on a body that is not JSON: json.JSONDecodeError, or
      \* the RequestException subclass of newer requests; None either way
      [] o.kind = "JSONDecodeError" -> [res |-> RetNone, out |-> <<"json_error">>]
      [] o.kind = "ok" ->
           IF o.data.type = "object" THEN envelope(o.data)
           ELSE \* data.get on a list or on None: AttributeError, which no
                \* except clause of _make_request names
                [res |-> Raise("AttributeError"), out |-> <<>>]

(***************************************************************************)
(* get_league_id.                                                          *)
(***************************************************************************)
\* season_matches, but the "current" flag is not looked at
season_matches_any_flag(season_info, current_season) ==
    /\ "year" \in DOMAIN season_info
    /\ season_info.year = current_season

\* season_info.get('year') == current_season and season_info.get('current', False)
season_matches(season_info, current_season) ==
    /\ "year" \in DOMAIN season_info
    /\ season_info.year = current_season
    /\ "current" \in DOMAIN season_info
    /\ season_info.current

\* the inner loop over league_data.get('seasons', []) reaches its return
has_current(league_data, current_season) ==
    /\ "seasons" \in DOMAIN league_data
    /\ \E j \in 1..Len(league_data.seasons) :
          season_matches(league_data.seasons[j], current_season)

RECURSIVE exact_pass(_, _, _)
\* the first loop, from record i on: the index of the record it returns
\* from, 0 when the loop runs to its end
exact_pass(leagues, current_season, i) ==
    IF i > Len(leagues) THEN 0
    ELSE IF has_current(leagues[i], current_season) THEN i
    ELSE exact_pass(leagues, current_season, i + 1)

\* league_data.get('id') is truthy
has_id(league_data) == "id" \in DOMAIN league_data /\ league_data.id # 0

\* fallback_pass, but the last record with an id wins
fallback_pass_last(leagues, i) ==
    LET S == {k \in i..Len(leagues) : "id" \in DOMAIN leagues[k]}
    IN  IF S = {} THEN 0 ELSE CHOOSE k \in S : \A m \in S : m <= k

RECURSIVE fallback_pass(_, _)
\* the second loop, from record i on: the index of the record it returns
\* from, 0 when the loop runs to its end
fallback_pass(leagues, i) ==
    IF i > Len(leagues) THEN 0
    ELSE IF has_id(leagues[i]) THEN i
    ELSE fallback_pass(leagues, i + 1)

\* league_data['id']
league_id_of(league_data) ==
    IF "id" \in DOMAIN league_data THEN Ret(league_data.id) ELSE Raise("KeyError")

\* the two loops and the final return, on a non-empty league list
league_scan(leagues, current_season) ==
    LET e == exact_pass(leagues, current_season, 1)
        f == fallback_pass(leagues, 1)
    IN  IF e # 0 THEN [res |-> league_id_of(leagues[e]), out |-> <<>>]
        ELSE IF f # 0 THEN [res |-> Ret(leagues[f].id), out |-> <<"approx_warning">>]
        ELSE [res |-> RetNone, out |-> <<"no_league_id">>]

\* get_league_id, given the outcome o of its GET; req is what _make_request returned
get_league_id(o, current_season) ==
    LET r == make_request(o) IN
    IF r.res.st = "raise" THEN [res |-> r.res, out |-> r.out, req |-> r.res]
    ELSE IF ~Truthy(r.res)
         THEN [res |-> RetNone, out |-> r.out \o <<"no_leagues">>, req |-> r.res]
         ELSE LET s == league_scan(r.res.val, current_season)
              IN  [res |-> s.res, out |-> r.out \o s.out, req |-> r.res]

(***************************************************************************)
(* get_team_id.                                                            *)
(***************************************************************************)
\* the loop over teams_data: lines 156-157 are inside the loop body, so the
\* first iteration returns whether or not the first candidate matches
team_scan(teams_data, team_name) ==
    LET team_info == teams_data[1] IN
    IF lower(team_info.team.name) = lower(team_name)
    THEN [res |-> Ret(team_info.team.id), out |-> <<>>]
    ELSE [res |-> RetNone, out |-> <<"team_not_found">>]

get_team_id(team_name, o) ==
    LET r == make_request(o) IN
    IF r.res.st = "raise" THEN [res |-> r.res, out |-> r.out, req |-> r.res]
    ELSE IF ~Truthy(r.res)
         THEN [res |-> RetNone, out |-> r.out \o <<"no_teams">>, req |-> r.res]
         ELSE LET s == team_scan(r.res.val, team_name)
              IN  [res |-> s.res, out |-> r.out \o s.out, req |-> r.res]

(***************************************************************************)
(* The statistics payload and the report of get_team_statistics.           *)
(***************************************************************************)
FixtureKeys == <<"played", "wins", "draws", "losses">>

FixtureDicts ==
    {[k \in ks |-> [total |-> 1]] : ks \in SUBSET {"played", "wins", "draws", "losses"}}

GoalSides == {[total |-> [total |-> 1]], [total |-> [total |-> 1], average |-> [total |-> "1.0"]]}

GoalDicts ==
    {[n |-> 1]}
    \cup {[for |-> f] : f \in GoalSides}
    \cup {[against |-> a] : a \in GoalSides}
    \cup {[for |-> f, against |-> a] : f \in GoalSides, a \in GoalSides}

\* the keys of the statistics structure whose fields are read with .get only
PlainKeys == {"league", "team", "clean_sheets", "failed_to_score"}

\* "form" is a key of the payload the report does not read
PlainParts == {[k \in ks |-> [n |-> 1]] : ks \in SUBSET (PlainKeys \cup {"form"})}

FixtureParts == {[k \in {} |-> 0]} \cup {[fixtures |-> d] : d \in FixtureDicts}

GoalParts == {[k \in {} |-> 0]} \cup {[goals |-> d] : d \in GoalDicts}

\* the non-empty statistics structures
StatsDicts ==
    {p @@ f @@ g : <<p, f, g>> \in
        {t \in PlainParts \X FixtureParts \X GoalParts :
            DOMAIN t[1] \cup DOMAIN t[2] \cup DOMAIN t[3] # {}}}

\* the statistics payloads: the empty list (k = 0) and the non-empty structures
StatsPayloads(k) == IF k = 0 THEN {<<>>} ELSE StatsDicts

RECURSIVE fixture_lines(_, _)
\* the four "(Total)" lines, from key i on: the lines printed and whether
\* fixtures[key] raised KeyError
fixture_lines(fixtures, i) ==
    IF i > Len(FixtureKeys) THEN [ok |-> TRUE, out |-> <<>>]
    ELSE IF FixtureKeys[i] \notin DOMAIN fixtures THEN [ok |-> FALSE, out |-> <<>>]
    ELSE LET rest == fixture_lines(fixtures, i + 1)
         IN  [ok |-> rest.ok, out |-> <<"fixtures_" \o FixtureKeys[i]>> \o rest.out]

\* lines 206-211
general_section(team_stats) ==
    (IF "league" \in DOMAIN team_stats THEN <<"sec_league">> ELSE <<>>)
    \o (IF "team" \in DOMAIN team_stats THEN <<"sec_team">> ELSE <<>>)

\* lines 214-230: the lines printed and whether the section ran to its end
fixtures_section(team_stats) ==
    IF "fixtures" \notin DOMAIN team_stats THEN [ok |-> TRUE, out |-> <<>>]
    ELSE LET l == fixture_lines(team_stats.fixtures, 1)
         IN  [ok |-> l.ok,
              out |-> <<"sec_fixtures">> \o l.out
                      \o (IF l.ok THEN <<"fixtures_home_away">> ELSE <<>>)]

\* lines 235-246: the lines printed and whether the block ran to its end
goals_lines(goals) ==
    IF "for" \notin DOMAIN goals THEN [ok |-> FALSE, out |-> <<"sec_goals">>]
    ELSE IF "against" \notin DOMAIN goals
         THEN [ok |-> FALSE, out |-> <<"sec_goals", "goals_for">>]
         ELSE [ok |-> TRUE,
               out |-> <<"sec_goals", "goals_for", "goals_against">>
                       \o (IF "average" \in DOMAIN goals["for"]
                           THEN <<"average_for">> ELSE <<>>)
                       \o (IF "average" \in DOMAIN goals["against"]
                           THEN <<"average_against">> ELSE <<>>)]

\* lines 249-264, which are inside the body of "if 'goals' in team_stats"
goals_tail(team_stats) ==
    (IF "clean_sheets" \in DOMAIN team_stats THEN <<"sec_clean_sheets">> ELSE <<>>)
    \o (IF "failed_to_score" \in DOMAIN team_stats THEN <<"sec_failed_to_score">> ELSE <<>>)
    \o <<"footer">>

\* lines 203-265: the report of a non-empty statistics structure and the
\* result of get_team_statistics
report(team_stats) ==
    LET head == <<"header">> \o general_section(team_stats)
        fx == fixtures_section(team_stats)
    IN  IF ~fx.ok THEN [res |-> Raise("KeyError"), out |-> head \o fx.out]
        ELSE IF "goals" \notin DOMAIN team_stats
             THEN \* the function body ends without a return statement
                  [res |-> RetNone, out |-> head \o fx.out]
             ELSE LET g == goals_lines(team_stats.goals) IN
                  IF ~g.ok
                  THEN [res |-> Raise("KeyError"), out |-> head \o fx.out \o g.out]
                  ELSE [res |-> Ret(team_stats),
                        out |-> head \o fx.out \o g.out \o goals_tail(team_stats)]

\* lines 193-265, given the outcome o of the GET
fetch_and_report(o) ==
    LET r == make_request(o) IN
    IF r.res.st = "raise" THEN [res |-> r.res, out |-> r.out, req |-> r.res]
    ELSE IF ~Truthy(r.res)
         THEN [res |-> RetNone, out |-> r.out \o <<"no_statistics">>, req |-> r.res]
         ELSE LET s == report(r.res.val)
              IN  [res |-> s.res, out |-> r.out \o s.out, req |-> r.res]

(***************************************************************************)
(* State.  The run of get_team_statistics is the specification Spec.  The  *)
(* methods _make_request, get_league_id and get_team_id are also checked   *)
(* on their own, each under a specification that draws the outcome of the  *)
(* GET in its initial state and then makes the one call.                   *)
(***************************************************************************)
VARIABLES
    pc,               \* where the run or the call is
    team_name,        \* the argument team_name
    reqs,             \* the endpoints requested so far, in order
    http,             \* the outcome of the GET of the method called on its own
    req,              \* what _make_request returned to that method
    league_id,        \* the result of get_league_id
    team_id,          \* the result of get_team_id
    statistics_data,  \* what _make_request returned to get_team_statistics
    result,           \* the result of get_team_statistics
    out               \* the lines printed so far

vars == <<pc, team_name, reqs, http, req, league_id, team_id, statistics_data,
          result, out>>

NoGet == [kind |-> "none"]

\* everything but pc, team_name and http, before any call
Fresh ==
    /\ reqs = <<>>
    /\ req = Pending
    /\ league_id = Pending
    /\ team_id = Pending
    /\ statistics_data = Pending
    /\ result = Pending
    /\ out = <<>>

(***************************************************************************)
(* One run of get_team_statistics.                                         *)
(***************************************************************************)
Init ==
    /\ pc = "league"
    /\ team_name \in RequestedNames
    /\ http = NoGet
    /\ Fresh

\* after_resolve, but a None id does not stop the run
after_resolve_go_on(id, next_pc) ==
    IF id.st = "raise" THEN [pc |-> "done", result |-> id]
    ELSE [pc |-> next_pc, result |-> Pending]

\* what get_team_statistics does with the id a resolver returned: go on to
\* the next step, or return None (an exception passes through)
after_resolve(id, next_pc) ==
    IF id.st = "return" THEN [pc |-> next_pc, result |-> Pending]
    ELSE [pc |-> "done", result |-> id]

\* lines 173-180, given the outcome o of the GET
resolve_league_on(o) ==
    LET r == get_league_id(o, Season)
        a == after_resolve(r.res, "team")
    IN  /\ reqs' = Append(reqs, "leagues")
        /\ league_id' = r.res
        /\ pc' = a.pc
        /\ result' = a.result
        /\ out' = out \o <<"searching_league">> \o r.out
                  \o (IF a.pc = "team" THEN <<"found_league">> ELSE <<>>)

resolve_league ==
    /\ pc = "league"
    /\ some_outcome(0..MaxLeagues, LeagueLists, resolve_league_on)
    /\ UNCHANGED <<team_name, http, req, team_id, statistics_data>>

\* lines 182-187, given the outcome o of the GET
resolve_team_on(o) ==
    LET r == get_team_id(team_name, o)
        a == after_resolve(r.res, "statistics")
    IN  /\ reqs' = Append(reqs, "teams")
        /\ team_id' = r.res
        /\ pc' = a.pc
        /\ result' = a.result
        /\ out' = out \o <<"searching_team">> \o r.out
                  \o (IF a.pc = "statistics" THEN <<"found_team">> ELSE <<>>)

resolve_team ==
    /\ pc = "team"
    /\ some_outcome(0..MaxTeams, TeamLists, resolve_team_on)
    /\ UNCHANGED <<team_name, http, req, league_id, statistics_data>>

\* lines 189-265, given the outcome o of the GET
fetch_statistics_on(o) ==
    LET r == fetch_and_report(o)
    IN  /\ reqs' = Append(reqs, "teams/statistics")
        /\ statistics_data' = r.req
        /\ result' = r.res
        /\ out' = out \o <<"fetching_statistics">> \o r.out

fetch_statistics ==
    /\ pc = "statistics"
    /\ some_outcome({0, 1}, StatsPayloads, fetch_statistics_on)
    /\ pc' = "done"
    /\ UNCHANGED <<team_name, http, req, league_id, team_id>>

Next == resolve_league \/ resolve_team \/ fetch_statistics

Spec == Init /\ [][Next]_vars

\* the GET of a method called on its own has the outcome o
http_is(o) == http = o

(***************************************************************************)
(* _make_request on its own.                                               *)
(***************************************************************************)
InitRequest ==
    /\ pc = "call"
    /\ team_name = <<>>
    /\ \/ some_outcome(0..MaxLeagues, LeagueLists, http_is)
       \/ some_outcome(0..MaxTeams, TeamLists, http_is)
       \/ some_outcome({0, 1}, StatsPayloads, http_is)
    /\ Fresh

call_make_request ==
    /\ pc = "call"
    /\ LET r == make_request(http)
       IN  /\ req' = r.res
           /\ out' = r.out
    /\ pc' = "done"
    /\ UNCHANGED <<team_name, reqs, http, league_id, team_id, statistics_data, result>>

NextRequest == call_make_request

SpecRequest == InitRequest /\ [][NextRequest]_vars

(***************************************************************************)
(* get_league_id on its own.                                               *)
(***************************************************************************)
InitLeague ==
    /\ pc = "call"
    /\ team_name = <<>>
    /\ some_outcome(0..MaxLeagues, LeagueLists, http_is)
    /\ Fresh

call_get_league_id ==
    /\ pc = "call"
    /\ LET r == get_league_id(http, Season)
       IN  /\ req' = r.req
           /\ league_id' = r.res
           /\ out' = r.out
    /\ reqs' = <<"leagues">>
    /\ pc' = "done"
    /\ UNCHANGED <<team_name, http, team_id, statistics_data, result>>

NextLeague == call_get_league_id

SpecLeague == InitLeague /\ [][NextLeague]_vars

(***************************************************************************)
(* get_team_id on its own.                                                 *)
(***************************************************************************)
InitTeam ==
    /\ pc = "call"
    /\ team_name \in RequestedNames
    /\ some_outcome(0..MaxTeams, TeamLists, http_is)
    /\ Fresh

call_get_team_id ==
    /\ pc = "call"
    /\ LET r == get_team_id(team_name, http)
       IN  /\ req' = r.req
           /\ team_id' = r.res
           /\ out' = r.out
    /\ reqs' = <<"teams">>
    /\ pc' = "done"
    /\ UNCHANGED <<team_name, http, league_id, statistics_data, result>>

NextTeam == call_get_team_id

SpecTeam == InitTeam /\ [][NextTeam]_vars

(***************************************************************************)
(* Properties.                                                             *)
(***************************************************************************)
Range(q) == {q[i] : i \in DOMAIN q}

Printed(line) == line \in Range(out)

Min(S) == CHOOSE x \in S : \A y \in S : x <= y

\* the method called on its own has returned or raised
Called == pc = "done"

\* the list or dict the method got from _make_request, when it got one
Payload == req.val

GotPayload == req.st = "return" /\ Payload # <<>>

\* the league records with a season entry of the requested year flagged current
ExactRecords ==
    {i \in 1..Len(Payload) :
        /\ "seasons" \in DOMAIN Payload[i]
        /\ \E j \in 1..Len(Payload[i].seasons) :
              Payload[i].seasons[j] = [year |-> Season, current |-> TRUE]}

\* the league records that carry an id
IdRecords == {i \in 1..Len(Payload) : "id" \in DOMAIN Payload[i]}

\* the candidates whose name is the requested one up to letter case
MatchingTeams ==
    {i \in 1..Len(Payload) : lower(Payload[i].team.name) = lower(team_name)}

\* C1: whenever some candidate of a non-empty teams payload has the requested
\* name up to letter case, get_team_id returns the id of the first such
\* candidate, whatever its position in the list.
C1_FirstMatchingTeam ==
    (Called /\ GotPayload /\ MatchingTeams # {})
        => team_id = Ret(Payload[Min(MatchingTeams)].team.id)

\* C2: whenever some league record has a season entry of the requested year
\* flagged current, get_league_id returns the id the first such record
\* carries, also when earlier records carry an id but no such entry, and it
\* prints no approximate-match warning.
C2_ExactPass ==
    (Called /\ GotPayload /\ ExactRecords # {}
        /\ Min(ExactRecords) \in IdRecords)
        => /\ league_id = Ret(Payload[Min(ExactRecords)].id)
           /\ ~Printed("approx_warning")

\* C2 happens: the second record is the first exact one, the first record
\* carries another id, and the id of the second record is returned.
C2_Witness ==
    /\ Called /\ GotPayload
    /\ ExactRecords # {} /\ Min(ExactRecords) = 2
    /\ IdRecords = {1, 2}
    /\ Payload[1].id # Payload[2].id
    /\ league_id = Ret(Payload[2].id)

\* the call returns through the fallback pass
ThroughFallback == GotPayload /\ ExactRecords = {} /\ IdRecords # {}

\* C3: with no record that has the requested season flagged current,
\* get_league_id returns the id of the first record that carries an id and
\* prints the approximate-match warning; the warning is printed in exactly
\* the calls that return through the fallback pass.
C3_FallbackPass ==
    Called =>
        /\ ThroughFallback => league_id = Ret(Payload[Min(IdRecords)].id)
        /\ Printed("approx_warning") <=> ThroughFallback

\* C3 happens: no exact record, the first record has no id, the two after it
\* would give different answers, and the warning is printed.
C3_Witness ==
    /\ Called /\ ThroughFallback
    /\ Min(IdRecords) = 2
    /\ "seasons" \in DOMAIN Payload[2]
    /\ league_id = Ret(Payload[2].id)
    /\ Printed("approx_warning")

\* C4: no exception leaves _make_request, whatever the outcome of the GET,
\* and a connection failure, a timeout, a non-2xx status and a body that is
\* not JSON all give None.
C4_NoExceptionEscapes ==
    Called =>
        /\ req.st # "raise"
        /\ http.kind \in {"ConnectionError", "Timeout", "RequestException",
                          "HTTPError", "JSONDecodeError"} => req = RetNone

\* the three endpoints, in the order get_team_statistics requests them
Endpoints == <<"leagues", "teams", "teams/statistics">>

\* the statistics report has been started
ReportStarted == Printed("header")

\* C5: the requests go out in the order leagues, teams, teams/statistics, at
\* most one each; teams only after get_league_id returned an id and
\* teams/statistics only after get_team_id returned an id; once a step gives
\* "not found", no later request goes out, no report is printed and the run
\* returns None.
C5_ShortCircuit ==
    /\ Len(reqs) <= 3 /\ reqs = SubSeq(Endpoints, 1, Len(reqs))
    /\ Len(reqs) >= 2 => league_id.st = "return"
    /\ Len(reqs) >= 3 => team_id.st = "return"
    /\ league_id.st = "none" =>
          pc = "done" /\ reqs = <<"leagues">> /\ result = RetNone /\ ~ReportStarted
    /\ team_id.st = "none" =>
          pc = "done" /\ Len(reqs) = 2 /\ result = RetNone /\ ~ReportStarted
    /\ (statistics_data.st = "none"
            \/ (statistics_data.st = "return" /\ statistics_data.val = <<>>)) =>
          pc = "done" /\ result = RetNone /\ ~ReportStarted

\* C5 happens: the league is resolved, the team is not found, and the run
\* stops after two requests.
C5_Witness ==
    /\ pc = "done"
    /\ league_id.st = "return" /\ team_id.st = "none"
    /\ reqs = <<"leagues", "teams">>
    /\ result = RetNone

\* the statistics request gave a non-empty structure
GotStatistics == statistics_data.st = "return" /\ statistics_data.val # <<>>

\* C6: whenever the statistics request gives a non-empty structure,
\* get_team_statistics returns that structure, whichever subsections it has.
C6_ReturnsStatistics ==
    (pc = "done" /\ GotStatistics) => result = Ret(statistics_data.val)

\* C7: the report of a non-empty statistics structure never raises, whichever
\* subsections and fields are absent.
C7_ReportNeverRaises ==
    (pc = "done" /\ GotStatistics) => result.st # "raise"

\* C8: on a 2xx response whose body is a JSON object, a present and non-empty
\* "response" is returned as it is; otherwise the call returns an empty list,
\* not None, and prints the API-error line exactly when "errors" is present
\* and non-empty.
C8_Envelope ==
    (Called /\ http.kind = "ok" /\ http.data.type = "object") =>
        IF "response" \in DOMAIN http.data /\ http.data.response # <<>>
        THEN req = Ret(http.data.response)
        ELSE /\ req = Ret(<<>>)
             /\ Printed("api_error")
                   <=> ("errors" \in DOMAIN http.data /\ Len(http.data.errors) > 0)

\* C8 happens: no payload, an errors field, and the API-error line with an
\* empty list returned.
C8_Witness ==
    /\ Called /\ http.kind = "ok" /\ http.data.type = "object"
    /\ "response" \notin DOMAIN http.data
    /\ "errors" \in DOMAIN http.data /\ Len(http.data.errors) > 0
    /\ req = Ret(<<>>)
    /\ Printed("api_error")

\* C9: on a non-empty league list in which no record carries an id,
\* get_league_id reports and returns None without raising, also when one of
\* the records has the requested season flagged current.
C9_NoIdNotFound ==
    (Called /\ GotPayload /\ IdRecords = {})
        => league_id = RetNone /\ Printed("no_league_id")

\* the line that opens each section of the report
SectionLine ==
    [league |-> "sec_league", team |-> "sec_team", fixtures |-> "sec_fixtures",
     goals |-> "sec_goals", clean_sheets |-> "sec_clean_sheets",
     failed_to_score |-> "sec_failed_to_score"]

\* C10: in a run that fetched a non-empty statistics structure and did not
\* raise, each of the six sections is printed exactly when its key is in the
\* structure, whatever other keys are there.
C10_SectionsIndependent ==
    (pc = "done" /\ GotStatistics /\ result.st # "raise") =>
        \A k \in DOMAIN SectionLine :
            Printed(SectionLine[k]) <=> k \in DOMAIN statistics_data.val

====
